---- MODULE Spec2Model ----
(***************************************************************************)
(* A model of sake.py: the query and selection engine over experiment      *)
(* runs (field resolution, best-checkpoint selection, the filter compiler  *)
(* and evaluator, and the presenter).                                      *)
(*                                                                         *)
(* Representation.                                                         *)
(*   - A Python str is a sequence of one-character strings.                *)
(*   - A Python dict is a sequence of [k, v] records with distinct keys,   *)
(*     in insertion order.                                                 *)
(*   - A JSON scalar is a tagged record: [t |-> "int", v |-> n],           *)
(*     [t |-> "float", v |-> [n, d]] (the decimal n/d, d a power of ten),  *)
(*     [t |-> "str", v |-> s], [t |-> "time", v |-> day], and None.        *)
(*   - A raised exception is the record [exc |-> <its class name>].        *)
(***************************************************************************)
EXTENDS Integers, Sequences, FiniteSets, TLC

VARIABLES repo, expe, request, pc, result

vars == <<repo, expe, request, pc, result>>

(***************************************************************************)
(* Bounds of the model.                                                    *)
(***************************************************************************)
MaxCheckpoints == 3
MaxValue == 2
MaxPad == 1
MaxRuns == 2
MaxLines == 6

(***************************************************************************)
(* Python values.                                                          *)
(***************************************************************************)
None == [t |-> "none"]
PyInt(n) == [t |-> "int", v |-> n]
PyFloat(n, d) == [t |-> "float", v |-> [n |-> n, d |-> d]]
PyStr(s) == [t |-> "str", v |-> s]
PyTime(d) == [t |-> "time", v |-> d]
PyBool(b) == [t |-> "bool", v |-> b]
Raise(e) == [exc |-> e]
IsRaise(x) == "exc" \in DOMAIN x

\* Op applied to the value of v, which is evaluated once: the local
\* variable of the code that holds v
Bind(v, Op(_)) == CHOOSE r \in {Op(x) : x \in {v}} : TRUE

(***************************************************************************)
(* Python str operations on sequences of characters.                       *)
(***************************************************************************)
Ord(c) ==
  CASE c = " " -> 32 [] c = "!" -> 33 [] c = "-" -> 45 [] c = "." -> 46
    [] c = "0" -> 48 [] c = "1" -> 49 [] c = "2" -> 50 [] c = "5" -> 53
    [] c = ":" -> 58 [] c = "<" -> 60 [] c = "=" -> 61 [] c = ">" -> 62
    [] c = "a" -> 97 [] c = "b" -> 98 [] c = "c" -> 99 [] c = "d" -> 100
    [] c = "e" -> 101 [] c = "i" -> 105 [] c = "l" -> 108 [] c = "n" -> 110
    [] c = "o" -> 111 [] c = "r" -> 114 [] c = "s" -> 115 [] c = "t" -> 116
    [] c = "x" -> 120 [] c = "z" -> 122

StartsAt(s, t, i) ==
  /\ i >= 1
  /\ i + Len(t) - 1 <= Len(s)
  /\ \A j \in 1..Len(t) : s[i + j - 1] = t[j]

\* str.find, 1-based; 0 when t does not occur in s
Find(s, t) ==
  LET hits == {i \in 1..(Len(s) + 1) : StartsAt(s, t, i)}
  IN  IF hits = {} THEN 0 ELSE CHOOSE i \in hits : \A j \in hits : i <= j

\* t in s
Contains(s, t) == Find(s, t) # 0

RECURSIVE Split(_, _)
\* s.split(sep): cut at every occurrence of sep, left to right
Split(s, sep) ==
  LET i == Find(s, sep)
  IN  IF i = 0 THEN <<s>>
      ELSE <<SubSeq(s, 1, i - 1)>> \o Split(SubSeq(s, i + Len(sep), Len(s)), sep)

IsSpace(c) == c = " "

RECURSIVE LStrip(_)
LStrip(s) == IF s # <<>> /\ IsSpace(Head(s)) THEN LStrip(Tail(s)) ELSE s

RECURSIVE RStrip(_)
RStrip(s) ==
  IF s # <<>> /\ IsSpace(s[Len(s)]) THEN RStrip(SubSeq(s, 1, Len(s) - 1)) ELSE s

\* s.strip()
Strip(s) == RStrip(LStrip(s))

RECURSIVE StrLess(_, _)
\* s < t on str: lexicographic by code point
StrLess(s, t) ==
  IF t = <<>> THEN FALSE
  ELSE IF s = <<>> THEN TRUE
  ELSE IF Head(s) # Head(t) THEN Ord(Head(s)) < Ord(Head(t))
  ELSE StrLess(Tail(s), Tail(t))

RECURSIVE Join(_, _)
\* sep.join(parts)
Join(parts, sep) ==
  IF parts = <<>> THEN <<>>
  ELSE IF Len(parts) = 1 THEN parts[1]
  ELSE parts[1] \o sep \o Join(Tail(parts), sep)

(***************************************************************************)
(* Python dict operations.                                                 *)
(***************************************************************************)
Keys(d) == {d[i].k : i \in 1..Len(d)}
Has(d, key) == key \in Keys(d)
Get(d, key) == d[CHOOSE i \in 1..Len(d) : d[i].k = key].v

(***************************************************************************)
(* Experiment.get_best_checkpoint                                          *)
(***************************************************************************)
RECURSIVE Tally(_, _)
\* the dict `metrics` after the first loop: (name, goal) -> count, in the
\* order in which the pairs were first seen
Tally(checkpoints, metrics) ==
  IF checkpoints = <<>> THEN metrics
  ELSE LET key == Head(checkpoints).primary_metric
           seen == \E i \in 1..Len(metrics) : metrics[i].k = key
           init == IF seen THEN metrics ELSE Append(metrics, [k |-> key, v |-> 0])
           next == [i \in 1..Len(init) |->
                      IF init[i].k = key
                      THEN [k |-> key, v |-> init[i].v + 1]
                      ELSE init[i]]
       IN  Tally(Tail(checkpoints), next)

RECURSIVE InsertByCount(_, _)
\* insert item x into the sorted list after every item whose count is <= x's
InsertByCount(sorted, x) ==
  IF sorted = <<>> THEN <<x>>
  ELSE IF Head(sorted).v <= x.v THEN <<Head(sorted)>> \o InsertByCount(Tail(sorted), x)
  ELSE <<x>> \o sorted

RECURSIVE SortedByCount(_)
\* sorted(metrics.items(), key=lambda x: x[1]): ascending and stable
SortedByCount(items) ==
  IF items = <<>> THEN <<>>
  ELSE InsertByCount(SortedByCount(SubSeq(items, 1, Len(items) - 1)), items[Len(items)])

\* a selector that takes the first item of the sorted tally having the
\* largest count, not the last
PrimaryMetric_FirstOfTies(checkpoints) ==
  LET sorted == SortedByCount(Tally(checkpoints, <<>>))
      top == sorted[Len(sorted)].v
  IN  sorted[CHOOSE i \in 1..Len(sorted) :
               sorted[i].v = top /\ \A j \in 1..(i - 1) : sorted[j].v # top].k

\* (name, goal), _ = sorted(...)[-1]
PrimaryMetric(checkpoints) ==
  LET sorted == SortedByCount(Tally(checkpoints, <<>>))
  IN  sorted[Len(sorted)].k

\* a selector in which a tie replaces the running best
Improves_TiesReplace(goal, value, metric_value) ==
  \/ goal = "maximize" /\ value >= metric_value
  \/ goal = "minimize" /\ value <= metric_value

\* goal == "maximize" and value > metric_value, elif goal == "minimize" and ...
Improves(goal, value, metric_value) ==
  \/ goal = "maximize" /\ value > metric_value
  \/ goal = "minimize" /\ value < metric_value

RECURSIVE BestIndex(_, _, _, _, _)
\* the second loop, from position i on; positions are 1-based
BestIndex(checkpoints, pm, i, metric_value, checkpoint_idx) ==
  IF i > Len(checkpoints) THEN checkpoint_idx
  ELSE LET value == Get(checkpoints[i].metrics, pm.name).v
       IN  IF Improves(pm.goal, value, metric_value)
           THEN BestIndex(checkpoints, pm, i + 1, value, i)
           ELSE BestIndex(checkpoints, pm, i + 1, metric_value, checkpoint_idx)

get_best_checkpoint(e) ==
  IF e.checkpoints = None THEN Raise("TypeError")
  ELSE IF e.checkpoints.v = <<>> THEN Raise("IndexError")
  ELSE Bind(PrimaryMetric(e.checkpoints.v), LAMBDA pm :
         LET cps == e.checkpoints.v
         IN  IF \E i \in 1..Len(cps) : ~Has(cps[i].metrics, pm.name)
             THEN Raise("KeyError")
             ELSE [name |-> pm.name,
                   checkpoint |->
                     cps[BestIndex(cps, pm, 2, Get(cps[1].metrics, pm.name).v, 1)]])

(***************************************************************************)
(* Experiment.get_field                                                    *)
(***************************************************************************)
\* for checkpoint in self.checkpoints: if field in checkpoint["metrics"]
FirstRecording(cps, field) ==
  LET hits == {i \in 1..Len(cps) : Has(cps[i].metrics, field)}
  IN  IF hits = {} THEN 0 ELSE CHOOSE i \in hits : \A j \in hits : i <= j

get_field(e, field, default_val) ==
  IF Has(e.params, field) THEN Get(e.params, field)
  ELSE IF e.checkpoints = None THEN default_val
  ELSE Bind(get_best_checkpoint(e), LAMBDA best :
         IF IsRaise(best) THEN best
         ELSE IF Has(best.checkpoint.metrics, field)
         THEN Get(best.checkpoint.metrics, field)
         ELSE LET i == FirstRecording(e.checkpoints.v, field)
              IN  IF i # 0 THEN Get(e.checkpoints.v[i].metrics, field)
                  ELSE default_val)

(***************************************************************************)
(* str() of a value, as the f-string of get_metrics uses it                *)
(***************************************************************************)
Max(a, b) == IF a >= b THEN a ELSE b

Digit(d) == CASE d = 0 -> "0" [] d = 1 -> "1" [] d = 2 -> "2" [] d = 3 -> "3"
              [] d = 4 -> "4" [] d = 5 -> "5" [] d = 6 -> "6" [] d = 7 -> "7"
              [] d = 8 -> "8" [] d = 9 -> "9"

RECURSIVE NatToStr(_)
NatToStr(n) == IF n < 10 THEN <<Digit(n)>> ELSE NatToStr(n \div 10) \o <<Digit(n % 10)>>

IntToStr(n) == IF n < 0 THEN <<"-">> \o NatToStr(-n) ELSE NatToStr(n)

RECURSIVE Log10(_)
Log10(d) == IF d < 10 THEN 0 ELSE 1 + Log10(d \div 10)

RECURSIVE ZeroPadded(_, _)
ZeroPadded(s, n) == IF Len(s) >= n THEN s ELSE ZeroPadded(<<"0">> \o s, n)

RECURSIVE NoTrailingZeros(_)
NoTrailingZeros(s) ==
  IF Len(s) > 1 /\ s[Len(s)] = "0" THEN NoTrailingZeros(SubSeq(s, 1, Len(s) - 1)) ELSE s

\* repr of the decimal x.n / x.d: 1/2 -> "0.5", 1/100 -> "0.01", 5/1 -> "5.0"
FloatToStr(x) ==
  LET a == IF x.n < 0 THEN -x.n ELSE x.n
      frac == NoTrailingZeros(ZeroPadded(NatToStr(a % x.d), Max(Log10(x.d), 1)))
  IN  (IF x.n < 0 THEN <<"-">> ELSE <<>>) \o NatToStr(a \div x.d) \o <<".">> \o frac

ToStr(x) ==
  CASE x.t = "int" -> IntToStr(x.v)
    [] x.t = "float" -> FloatToStr(x.v)
    [] x.t = "str" -> x.v
    [] x.t = "none" -> <<"N", "o", "n", "e">>

(***************************************************************************)
(* Experiment._present                                                     *)
(***************************************************************************)
MAX_LENGTH == 60
DefaultNumValues == 5
ShowAllNumValues == 10000

Ellipsis == <<".", ".", ".">>

\* value.index(":") is 0-based and raises ValueError when there is no ":"
maybe_trim(value) ==
  IF Len(value) > MAX_LENGTH
  THEN IF ~Contains(value, <<":">>) THEN Raise("ValueError")
       ELSE LET split_idx == Max(MAX_LENGTH - 3, Find(value, <<":">>) - 1)
            IN  [ok |-> SubSeq(value, 1, split_idx) \o Ellipsis]
  ELSE [ok |-> value]

\* values[:n]
Prefix(values, n) == SubSeq(values, 1, IF n < Len(values) THEN n ELSE Len(values))

\* num_values = 0 stands for None
\* [maybe_trim(value) for value in values], then "\n".join
TrimmedAndJoined(values) ==
  Bind([i \in 1..Len(values) |-> maybe_trim(values[i])], LAMBDA trimmed :
    IF \E i \in 1..Len(values) : IsRaise(trimmed[i]) THEN Raise("ValueError")
    ELSE PyStr(Join([i \in 1..Len(values) |-> trimmed[i].ok], <<"\n">>)))

_present(values, num_values) ==
  LET n == IF num_values = 0 THEN DefaultNumValues ELSE num_values
  IN  TrimmedAndJoined(IF Len(values) >= n
                       THEN Prefix(values, n + 1) \o <<Ellipsis>>
                       ELSE values)

(***************************************************************************)
(* Experiment._select and Experiment.get_metrics                           *)
(***************************************************************************)
RECURSIVE SelectSeq2(_, _)
\* filter(lambda x: x[0] in select, items)
SelectSeq2(items, select) ==
  IF items = <<>> THEN <<>>
  ELSE IF Head(items).k \in select THEN <<Head(items)>> \o SelectSeq2(Tail(items), select)
  ELSE SelectSeq2(Tail(items), select)

\* select is [none |-> TRUE] or [none |-> FALSE, names |-> <set of names>]
_select(values, select) ==
  IF select.none \/ \A name \in select.names : ~Has(values, name)
  THEN [items |-> values, selected |-> FALSE]
  ELSE LET items == SelectSeq2(values, select.names)
       IN  [items |-> items, selected |-> Len(values) # Len(items)]

\* sorted(items, key=lambda x: -int(x[0] == name)): the primary metric first
PrimaryFirst(items, name) ==
  SelectSeq2(items, {name}) \o SelectSeq2(items, Keys(items) \ {name})

ZeroCheckpoints == <<"0", " ", "c", "h", "e", "c", "k", "p", "o", "i", "n", "t", "s">>

StepLine(step) ==
  <<"s", "t", "e", "p", " ">> \o IntToStr(step) \o <<" ", "(", "b", "e", "s", "t", ")">>

\* f"{key}: {value}" for each item
Lines(items) ==
  [i \in 1..Len(items) |-> items[i].k \o <<":", " ">> \o ToStr(items[i].v)]

get_metrics(e, select, show_all) ==
  IF e.checkpoints = None THEN PyStr(ZeroCheckpoints)
  ELSE Bind(get_best_checkpoint(e), LAMBDA best :
         IF IsRaise(best) THEN best
         ELSE Bind(_select(best.checkpoint.metrics, select), LAMBDA sel :
                _present(<<StepLine(best.checkpoint.step)>>
                           \o Lines(PrimaryFirst(sel.items, best.name)),
                         IF show_all THEN ShowAllNumValues
                         ELSE IF sel.selected THEN Len(sel.items)
                         ELSE 0)))

(***************************************************************************)
(* compile_filter                                                          *)
(***************************************************************************)
Filter(comp, field, value) ==
  [kind |-> "filter", comp |-> comp, field |-> field, value |-> value]

OrToken == <<" ", "o", "r", " ">>
InToken == <<" ", "i", "n", " ">>

\* field, value = format.split(token), then both stripped; the unpacking
\* raises ValueError unless the split has exactly two parts
SplitLeaf(format, token, comp) ==
  LET parts == Split(format, token)
  IN  IF Len(parts) # 2 THEN Raise("ValueError")
      ELSE Filter(comp, Strip(parts[1]), Strip(parts[2]))

\* value, field = format.split(" in ")
SplitIn(format) ==
  LET parts == Split(format, InToken)
  IN  IF Len(parts) # 2 THEN Raise("ValueError")
      ELSE Filter("in", Strip(parts[2]), Strip(parts[1]))

\* a compiler that tests the bare "<", "=" and ">" before the two-character
\* operators
compile_leaf_BareFirst(format) ==
  IF Contains(format, InToken) THEN SplitIn(format)
  ELSE IF Contains(format, <<"<">>) THEN SplitLeaf(format, <<"<">>, "<")
  ELSE IF Contains(format, <<"=">>) THEN SplitLeaf(format, <<"=">>, "=")
  ELSE IF Contains(format, <<">">>) THEN SplitLeaf(format, <<">">>, ">")
  ELSE IF Contains(format, <<"!", "=">>) THEN SplitLeaf(format, <<"!", "=">>, "!=")
  ELSE IF Contains(format, <<"<", "=">>) THEN SplitLeaf(format, <<"<", "=">>, "<=")
  ELSE IF Contains(format, <<">", "=">>) THEN SplitLeaf(format, <<">", "=">>, ">=")
  ELSE Raise("Exception")

\* the leaf triggers of compile_filter, in the order the code tests them
compile_leaf(format) ==
  IF Contains(format, InToken) THEN SplitIn(format)
  ELSE IF Contains(format, <<"!", "=">>) THEN SplitLeaf(format, <<"!", "=">>, "!=")
  ELSE IF Contains(format, <<"<", "=">>) THEN SplitLeaf(format, <<"<", "=">>, "<=")
  ELSE IF Contains(format, <<">", "=">>) THEN SplitLeaf(format, <<">", "=">>, ">=")
  ELSE IF Contains(format, <<"<">>) THEN SplitLeaf(format, <<"<">>, "<")
  ELSE IF Contains(format, <<"=">>) THEN SplitLeaf(format, <<"=">>, "=")
  ELSE IF Contains(format, <<">">>) THEN SplitLeaf(format, <<">">>, ">")
  ELSE Raise("Exception")

RECURSIVE compile_filter(_)
compile_filter(format) ==
  IF Contains(format, OrToken)
  THEN Bind(Split(format, OrToken), LAMBDA parts :
         IF Len(parts) # 2 THEN Raise("ValueError")
         ELSE Bind(compile_filter(parts[1]), LAMBDA lhs :
                IF IsRaise(lhs) THEN lhs
                ELSE Bind(compile_filter(parts[2]), LAMBDA rhs :
                       IF IsRaise(rhs) THEN rhs
                       ELSE [kind |-> "or", lhs |-> lhs, rhs |-> rhs])))
  ELSE compile_leaf(format)

(***************************************************************************)
(* try_fallback and the conversions Filter.__call__ hands to it            *)
(***************************************************************************)
Digits == {"0", "1", "2", "3", "4", "5", "6", "7", "8", "9"}

DigitValue(c) == CHOOSE d \in 0..9 : Digit(d) = c

RECURSIVE DigitsValue(_)
DigitsValue(s) ==
  IF s = <<>> THEN 0 ELSE 10 * DigitsValue(SubSeq(s, 1, Len(s) - 1)) + DigitValue(s[Len(s)])

RECURSIVE Pow10(_)
Pow10(n) == IF n = 0 THEN 1 ELSE 10 * Pow10(n - 1)

AllDigits(s) == \A i \in 1..Len(s) : s[i] \in Digits

\* int(s): an optional sign and at least one digit
ParseInt(s) ==
  LET neg == s # <<>> /\ Head(s) = "-"
      body == IF neg THEN Tail(s) ELSE s
  IN  IF body # <<>> /\ AllDigits(body)
      THEN PyInt(IF neg THEN -DigitsValue(body) ELSE DigitsValue(body))
      ELSE Raise("ValueError")

\* float(s): an optional sign, digits with at most one ".", at least one digit
ParseFloat(s) ==
  LET neg == s # <<>> /\ Head(s) = "-"
      body == IF neg THEN Tail(s) ELSE s
      dot == Find(body, <<".">>)
      whole == IF dot = 0 THEN body ELSE SubSeq(body, 1, dot - 1)
      frac == IF dot = 0 THEN <<>> ELSE SubSeq(body, dot + 1, Len(body))
      n == DigitsValue(whole \o frac)
  IN  IF AllDigits(whole) /\ AllDigits(frac) /\ whole \o frac # <<>>
      THEN PyFloat(IF neg THEN -n ELSE n, Pow10(Len(frac)))
      ELSE Raise("ValueError")

\* parser.parse(s, dayfirst): the model knows dates of one month and parses
\* a day number; any other text is a ParserError
ParseDate(s) ==
  IF s # <<>> /\ AllDigits(s) /\ DigitsValue(s) \in 1..31
  THEN PyTime(DigitsValue(s))
  ELSE Raise("ParserError")

\* convert_func(value), for convert_func = type(field)
Convert(type, s) ==
  CASE type = "int" -> ParseInt(s)
    [] type = "float" -> ParseFloat(s)
    [] type = "str" -> PyStr(s)
    [] type = "time" -> ParseDate(s)
    [] type = "none" -> Raise("TypeError")

try_fallback(type, default_val) ==
  LET converted == Convert(type, default_val)
  IN  IF IsRaise(converted) THEN PyStr(default_val) ELSE converted

(***************************************************************************)
(* The comparators of the compiled filters                                 *)
(***************************************************************************)
IsNumber(x) == x.t \in {"int", "float"}

\* a number as a fraction
Num(x) == IF x.t = "int" THEN [n |-> x.v, d |-> 1] ELSE x.v

NumLess(a, b) == Num(a).n * Num(b).d < Num(b).n * Num(a).d

NumEq(a, b) == Num(a).n * Num(b).d = Num(b).n * Num(a).d

\* a == b never raises
PyEq(a, b) ==
  IF IsNumber(a) /\ IsNumber(b) THEN NumEq(a, b)
  ELSE IF a.t = b.t THEN a = b
  ELSE FALSE

Orderable(a, b) ==
  \/ IsNumber(a) /\ IsNumber(b)
  \/ a.t = "str" /\ b.t = "str"
  \/ a.t = "time" /\ b.t = "time"

\* a < b, for a and b that Python can order
PyLess(a, b) ==
  IF IsNumber(a) THEN NumLess(a, b)
  ELSE IF a.t = "str" THEN StrLess(a.v, b.v)
  ELSE a.v < b.v

\* self.comp(field, comp_value)
Compare(comp, a, b) ==
  CASE comp = "=" -> PyBool(PyEq(a, b))
    [] comp = "!=" -> PyBool(~PyEq(a, b))
    [] comp = "in" -> IF a.t = "str" /\ b.t = "str" THEN PyBool(Contains(a.v, b.v))
                      ELSE Raise("TypeError")
    [] comp \in {"<", "<=", ">", ">="} ->
         IF ~Orderable(a, b) THEN Raise("TypeError")
         ELSE PyBool(CASE comp = "<" -> PyLess(a, b)
                       [] comp = "<=" -> ~PyLess(b, a)
                       [] comp = ">" -> PyLess(b, a)
                       [] comp = ">=" -> ~PyLess(a, b))

(***************************************************************************)
(* Filter.__call__ and the lambda of an "or"                               *)
(***************************************************************************)
NameCreated == <<"c", "r", "e", "a", "t", "e", "d">>
NameNCheckpoints ==
  <<"n", "_", "c", "h", "e", "c", "k", "p", "o", "i", "n", "t", "s">>

\* the field a leaf compares, or the exception the lookup raises
FilterField(f, e) ==
  IF f.field = NameCreated THEN e.created
  ELSE IF f.field = NameNCheckpoints
  THEN PyInt(IF e.checkpoints # None THEN Len(e.checkpoints.v) ELSE 0)
  ELSE get_field(e, f.field, None)

Filter__call__(f, e) ==
  Bind(FilterField(f, e), LAMBDA field :
    IF IsRaise(field) THEN field
    ELSE Bind(Compare(f.comp, field, try_fallback(field.t, f.value)), LAMBDA res :
           IF IsRaise(res) THEN PyBool(FALSE) ELSE res))

RECURSIVE Evaluate(_, _)
\* calling what compile_filter returned
Evaluate(f, e) ==
  IF f.kind = "filter" THEN Filter__call__(f, e)
  ELSE Bind(Evaluate(f.lhs, e), LAMBDA lhs :
         IF IsRaise(lhs) THEN lhs
         ELSE IF lhs.v THEN lhs
         ELSE Evaluate(f.rhs, e))

(***************************************************************************)
(* The runs the model draws its inputs from.                               *)
(***************************************************************************)
NameAcc == <<"a", "c", "c">>
NameLoss == <<"l", "o", "s", "s">>
NameLr == <<"l", "r">>
NameSeed == <<"s", "e", "e", "d">>

List(items) == [t |-> "list", v |-> items]

\* the (name, goal) pairs a checkpoint may nominate
PrimaryMetrics ==
  {[name |-> NameAcc, goal |-> "maximize"],
   [name |-> NameAcc, goal |-> "minimize"],
   [name |-> NameLoss, goal |-> "minimize"]}

\* acc is always recorded, loss only by some checkpoints
MetricDicts ==
  {<<[k |-> NameAcc, v |-> PyInt(a)]>> : a \in 1..MaxValue}
  \cup {<<[k |-> NameAcc, v |-> PyInt(a)], [k |-> NameLoss, v |-> PyInt(1)]>> :
          a \in 1..MaxValue}

CheckpointShapes == [metrics : MetricDicts, primary_metric : PrimaryMetrics]

\* checkpoint sequences of length n; the step of a checkpoint is its position
CheckpointLists(n) ==
  {[i \in 1..n |-> [step |-> i, metrics |-> f[i].metrics,
                    primary_metric |-> f[i].primary_metric]] :
     f \in [1..n -> CheckpointShapes]}

\* "checkpoints" of a record is null or an array, possibly empty
CheckpointFields ==
  {None} \cup {List(cps) : cps \in UNION {CheckpointLists(n) : n \in 0..MaxCheckpoints}}

NoRequest == [op |-> "none"]
NoResult == [t |-> "none"]

(***************************************************************************)
(* Best-checkpoint selection on its own: Experiment.get_best_checkpoint    *)
(* and Experiment.get_best_step applied to a loaded run.                   *)
(***************************************************************************)
InitBest ==
  /\ repo = <<>>
  /\ expe \in [id : {1}, created : {PyTime(1)}, params : {<<>>},
               checkpoints : CheckpointFields]
  /\ request = NoRequest
  /\ pc = "ready"
  /\ result = NoResult

GetBestCheckpoint ==
  /\ pc = "ready"
  /\ request' = [op |-> "get_best_checkpoint"]
  /\ result' = get_best_checkpoint(expe)
  /\ pc' = "done"
  /\ UNCHANGED <<repo, expe>>

get_best_step(e) ==
  LET best == get_best_checkpoint(e)
  IN  IF IsRaise(best) THEN best ELSE PyInt(best.checkpoint.step)

GetBestStep ==
  /\ pc = "ready"
  /\ request' = [op |-> "get_best_step"]
  /\ result' = get_best_step(expe)
  /\ pc' = "done"
  /\ UNCHANGED <<repo, expe>>

NextBest == GetBestCheckpoint \/ GetBestStep

SpecBest == InitBest /\ [][NextBest]_vars

(***************************************************************************)
(* What the claims about the selector speak of.                            *)
(***************************************************************************)
Cps == expe.checkpoints.v

HasCheckpoints == expe.checkpoints # None /\ expe.checkpoints.v # <<>>

ValueAt(i, name) == Get(Cps[i].metrics, name).v

\* position i holds the extremal value of metric pm.name under pm.goal
Extremal(i, pm) ==
  \A j \in 1..Len(Cps) :
    IF pm.goal = "maximize" THEN ValueAt(j, pm.name) <= ValueAt(i, pm.name)
    ELSE ValueAt(j, pm.name) >= ValueAt(i, pm.name)

\* the smallest position holding the extremal value
EarliestExtremal(pm) ==
  CHOOSE i \in 1..Len(Cps) :
    Extremal(i, pm) /\ \A j \in 1..Len(Cps) : Extremal(j, pm) => i <= j

AllRecord(name) == \A i \in 1..Len(Cps) : Has(Cps[i].metrics, name)

Nominated == {Cps[i].primary_metric : i \in 1..Len(Cps)}

Count(pm) == Cardinality({i \in 1..Len(Cps) : Cps[i].primary_metric = pm})

FirstOccurrence(pm) ==
  CHOOSE i \in 1..Len(Cps) :
    Cps[i].primary_metric = pm /\ \A j \in 1..(i - 1) : Cps[j].primary_metric # pm

\* the pair nominated most often; among those, the one first seen last
Authoritative ==
  CHOOSE pm \in Nominated :
    \A q \in Nominated \ {pm} :
      \/ Count(q) < Count(pm)
      \/ Count(q) = Count(pm) /\ FirstOccurrence(q) < FirstOccurrence(pm)

\* C1: when all checkpoints of a non-empty sequence nominate the same primary
\* metric and all record it, get_best_checkpoint returns that metric's name
\* and the checkpoint with the maximal (maximize) or minimal (minimize) value,
\* the one at the smallest position when several share that value.
C1_ExtremalEarliest ==
  (/\ pc = "done"
   /\ request.op = "get_best_checkpoint"
   /\ HasCheckpoints
   /\ Cardinality(Nominated) = 1
   /\ \A pm \in Nominated : AllRecord(pm.name))
  => \A pm \in Nominated :
       /\ ~IsRaise(result)
       /\ result.name = pm.name
       /\ result.checkpoint = Cps[EarliestExtremal(pm)]

\* a run of three checkpoints under one primary metric whose best value is
\* shared by the second and the third: the second is returned
C1_Witness ==
  /\ pc = "done"
  /\ request.op = "get_best_checkpoint"
  /\ HasCheckpoints
  /\ Len(Cps) = 3
  /\ Nominated = {[name |-> NameAcc, goal |-> "maximize"]}
  /\ ValueAt(1, NameAcc) < ValueAt(2, NameAcc)
  /\ ValueAt(2, NameAcc) = ValueAt(3, NameAcc)
  /\ ~IsRaise(result)
  /\ result.checkpoint.step = 2

\* C2: when the checkpoints disagree on the primary metric, the pair
\* nominated by the most checkpoints is authoritative, and among pairs with
\* the same largest count the one first encountered last; the returned name
\* and checkpoint are the ones selected under that pair.
C2_MajorityLaterWins ==
  (/\ pc = "done"
   /\ request.op = "get_best_checkpoint"
   /\ HasCheckpoints
   /\ Cardinality(Nominated) > 1
   /\ AllRecord(Authoritative.name))
  => /\ ~IsRaise(result)
     /\ result.name = Authoritative.name
     /\ result.checkpoint = Cps[EarliestExtremal(Authoritative)]

\* two pairs nominated once each, maximize first and minimize second, on
\* values where the two goals pick different checkpoints: minimize decides
C2_Witness ==
  /\ pc = "done"
  /\ request.op = "get_best_checkpoint"
  /\ HasCheckpoints
  /\ Len(Cps) = 2
  /\ Cps[1].primary_metric = [name |-> NameAcc, goal |-> "maximize"]
  /\ Cps[2].primary_metric = [name |-> NameAcc, goal |-> "minimize"]
  /\ ValueAt(1, NameAcc) < ValueAt(2, NameAcc)
  /\ ~IsRaise(result)
  /\ result.checkpoint.step = 1

(***************************************************************************)
(* The filter compiler on its own: compile_filter applied to an            *)
(* expression text.  The text is written from leaves (field, comparator,   *)
(* literal, whitespace) joined with " or "; the leaves are kept in the     *)
(* request beside the text.                                                *)
(***************************************************************************)
Comparators == {"=", "!=", "<", "<=", ">", ">="}

Token(comp) ==
  CASE comp = "=" -> <<"=">>
    [] comp = "!=" -> <<"!", "=">>
    [] comp = "<" -> <<"<">>
    [] comp = "<=" -> <<"<", "=">>
    [] comp = ">" -> <<">">>
    [] comp = ">=" -> <<">", "=">>
    [] comp = "in" -> InToken

Spaces(n) == [i \in 1..n |-> " "]

LeafText(l) ==
  IF l.comp = "in"
  THEN Spaces(l.pad[1]) \o l.literal \o Spaces(l.pad[2]) \o InToken
       \o Spaces(l.pad[3]) \o l.field \o Spaces(l.pad[4])
  ELSE Spaces(l.pad[1]) \o l.field \o Spaces(l.pad[2]) \o Token(l.comp)
       \o Spaces(l.pad[3]) \o l.literal \o Spaces(l.pad[4])

ExprText(leaves) == Join([i \in 1..Len(leaves) |-> LeafText(leaves[i])], OrToken)

LeafFilter(l) == Filter(l.comp, l.field, l.literal)

NoPad == <<0, 0, 0, 0>>

\* single leaves, with every padding up to MaxPad
PaddedLeaves ==
  [field : {<<"x">>, <<"i", "n">>, <<"o", "r">>},
   comp : Comparators \cup {"in"},
   literal : {<<"5">>, <<"i", "n">>},
   pad : [1..4 -> 0..MaxPad]]

\* the leaves of the "or" expressions
PlainLeaves ==
  [field : {<<"x">>}, comp : Comparators \cup {"in"}, literal : {<<"5">>}, pad : {NoPad}]

\* a text with no operator in it
NoLeaf == [field : {<<"x">>}, comp : {"none"}, literal : {<<>>}, pad : {NoPad}]

CompileRequests ==
  {[op |-> "none", format |-> LeafText(l), leaves |-> <<l>>] : l \in PaddedLeaves}
  \cup {[op |-> "none", format |-> ExprText(ls), leaves |-> ls] :
          ls \in UNION {[1..n -> PlainLeaves] : n \in 2..3}}
  \cup {[op |-> "none", format |-> l.field, leaves |-> <<l>>] : l \in NoLeaf}

NoRun == [t |-> "none"]

InitCompile ==
  /\ repo = <<>>
  /\ expe = NoRun
  /\ request \in CompileRequests
  /\ pc = "ready"
  /\ result = NoResult

CompileFilter ==
  /\ pc = "ready"
  /\ request' = [request EXCEPT !.op = "compile_filter"]
  /\ result' = compile_filter(request.format)
  /\ pc' = "done"
  /\ UNCHANGED <<repo, expe>>

NextCompile == CompileFilter

SpecCompile == InitCompile /\ [][NextCompile]_vars

Compiled == pc = "done" /\ request.op = "compile_filter"

OperatorChars == {"=", "!", "<", ">"}

\* s holds no operator character and neither " or " nor " in "
Plain(s) ==
  /\ \A i \in 1..Len(s) : s[i] \notin OperatorChars
  /\ ~Contains(s, OrToken)
  /\ ~Contains(s, InToken)

\* C4 as claimed: an expression of three leaves joined by two " or " compiles,
\* to the first leaf or-ed with the compilation of the other two.
C4_OrChainCompiles ==
  (Compiled /\ Len(request.leaves) = 3)
  => /\ ~IsRaise(result)
     /\ result.kind = "or"
     /\ result.lhs = LeafFilter(request.leaves[1])
     /\ result.rhs = [kind |-> "or", lhs |-> LeafFilter(request.leaves[2]),
                      rhs |-> LeafFilter(request.leaves[3])]

\* C5 as claimed: a comparison leaf whose field and literal are each free of
\* operator characters, " or " and " in " compiles to its own comparator,
\* field and literal, whatever whitespace surrounds them.
C5_RoundTripAsClaimed ==
  (/\ Compiled
   /\ Len(request.leaves) = 1
   /\ request.leaves[1].comp \in Comparators
   /\ Plain(request.leaves[1].field)
   /\ Plain(request.leaves[1].literal))
  => result = LeafFilter(request.leaves[1])

\* C5, amended: the same, for the leaves whose whole text, whitespace
\* included, holds neither " or " nor " in ".
C5_RoundTrip ==
  (/\ Compiled
   /\ Len(request.leaves) = 1
   /\ request.leaves[1].comp \in Comparators
   /\ Plain(request.leaves[1].field)
   /\ Plain(request.leaves[1].literal)
   /\ ~Contains(request.format, OrToken)
   /\ ~Contains(request.format, InToken))
  => result = LeafFilter(request.leaves[1])

\* " x <= 5 " was compiled, to (<=, x, 5)
C5_Witness ==
  /\ Compiled
  /\ request.format = <<" ", "x", " ", "<", "=", " ", "5", " ">>
  /\ result = Filter("<=", <<"x">>, <<"5">>)

(***************************************************************************)
(* Field resolution and the metrics cell of one loaded run:                *)
(* Experiment.get_field, Experiment.get_metrics, and a compiled filter     *)
(* called on the run.                                                      *)
(***************************************************************************)
FieldNames == {NameAcc, NameLoss, NameLr}

Defaults == {None, PyFloat(0, 1)}

\* n_checkpoints=0, n_checkpoints>0, acc>=1
RunFilterTexts ==
  {NameNCheckpoints \o <<"=", "0">>,
   NameNCheckpoints \o <<">", "0">>,
   NameAcc \o <<">", "=", "1">>}

InitField ==
  /\ repo = <<>>
  /\ expe \in [id : {1}, created : {PyTime(1)},
               params : {<<>>, <<[k |-> NameAcc, v |-> PyFloat(1, 2)]>>},
               checkpoints : CheckpointFields]
  /\ request = NoRequest
  /\ pc = "ready"
  /\ result = NoResult

GetField ==
  /\ pc = "ready"
  /\ \E field \in FieldNames, default_val \in Defaults :
       /\ request' = [op |-> "get_field", field |-> field, default_val |-> default_val]
       /\ result' = get_field(expe, field, default_val)
  /\ pc' = "done"
  /\ UNCHANGED <<repo, expe>>

GetMetrics ==
  /\ pc = "ready"
  /\ \E show_all \in BOOLEAN :
       /\ request' = [op |-> "get_metrics", show_all |-> show_all]
       /\ result' = get_metrics(expe, [none |-> TRUE], show_all)
  /\ pc' = "done"
  /\ UNCHANGED <<repo, expe>>

CallFilter ==
  /\ pc = "ready"
  /\ \E format \in RunFilterTexts :
       /\ request' = [op |-> "filter", format |-> format]
       /\ result' = Evaluate(compile_filter(format), expe)
  /\ pc' = "done"
  /\ UNCHANGED <<repo, expe>>

NextField == GetField \/ GetMetrics \/ CallFilter

SpecField == InitField /\ [][NextField]_vars

NoCheckpoints == expe.checkpoints = None \/ expe.checkpoints.v = <<>>

\* the value the resolution rule gives: params, then the best checkpoint,
\* then the first checkpoint recording the name, then the default
Resolved(field, default_val) ==
  IF Has(expe.params, field) THEN Get(expe.params, field)
  ELSE IF NoCheckpoints THEN default_val
  ELSE LET best == Cps[EarliestExtremal(Authoritative)]
           first == FirstRecording(Cps, field)
       IN  IF Has(best.metrics, field) THEN Get(best.metrics, field)
           ELSE IF first # 0 THEN Get(Cps[first].metrics, field)
           ELSE default_val

\* C3 as claimed: get_field returns the params value, else the best
\* checkpoint's value, else the first recorded value, else the default; for
\* every run whose authoritative primary metric is recorded by all its
\* checkpoints, a run without checkpoints included.
C3_ResolutionOrder ==
  (/\ pc = "done"
   /\ request.op = "get_field"
   /\ NoCheckpoints \/ AllRecord(Authoritative.name))
  => result = Resolved(request.field, request.default_val)

\* C8 as claimed: on a run whose checkpoint list is null or empty,
\* get_metrics returns "0 checkpoints", get_field of a name that is no
\* parameter returns the default, and a filter sees n_checkpoints = 0; none
\* of them raises.
C8_NoCheckpointsIsValid ==
  (pc = "done" /\ NoCheckpoints)
  => /\ ~IsRaise(result)
     /\ request.op = "get_metrics" => result = PyStr(ZeroCheckpoints)
     /\ (request.op = "get_field" /\ ~Has(expe.params, request.field))
          => result = request.default_val
     /\ (request.op = "filter" /\ request.format = NameNCheckpoints \o <<"=", "0">>)
          => result = PyBool(TRUE)
     /\ (request.op = "filter" /\ request.format = NameNCheckpoints \o <<">", "0">>)
          => result = PyBool(FALSE)

(***************************************************************************)
(* list_experiments                                                        *)
(***************************************************************************)
RECURSIVE AllFilters(_, _)
\* all(filter(expe) for filter in filters): stops at the first falsy result
AllFilters(filters, e) ==
  IF filters = <<>> THEN PyBool(TRUE)
  ELSE Bind(Evaluate(Head(filters), e), LAMBDA res :
         IF IsRaise(res) THEN res
         ELSE IF ~res.v THEN res
         ELSE AllFilters(Tail(filters), e))

Ids(items) == [j \in 1..Len(items) |-> items[j].id]

RECURSIVE InsertByKey(_, _)
\* insert x after every item whose key is not greater than x's
InsertByKey(sorted, x) ==
  IF sorted = <<>> THEN <<x>>
  ELSE IF PyLess(x.key, Head(sorted).key) THEN <<x>> \o sorted
  ELSE <<Head(sorted)>> \o InsertByKey(Tail(sorted), x)

RECURSIVE SortedByKey(_)
\* sorted(items, key=...): ascending and stable
SortedByKey(items) ==
  IF items = <<>> THEN <<>>
  ELSE InsertByKey(SortedByKey(SubSeq(items, 1, Len(items) - 1)), items[Len(items)])

\* [compile_filter(raw_filter) for raw_filter in args.filter]: the compiled
\* filters, or the exception of the first text that does not compile
CompileAll(texts) ==
  Bind([i \in 1..Len(texts) |-> compile_filter(texts[i])], LAMBDA compiled :
    LET failed == {i \in 1..Len(texts) : IsRaise(compiled[i])}
    IN  IF failed # {} THEN compiled[CHOOSE i \in failed : \A j \in failed : i <= j]
        ELSE [ok |-> compiled])

\* [expe for expe in experiments if all(filter(expe) for filter in filters)]:
\* the runs kept, or the exception of the first run whose evaluation raises
FilterRuns(experiments, filters) ==
  Bind([i \in 1..Len(experiments) |-> AllFilters(filters, experiments[i])], LAMBDA flags :
    LET failed == {i \in 1..Len(experiments) : IsRaise(flags[i])}
        kept == {i \in 1..Len(experiments) : flags[i].v}
    IN  IF failed # {} THEN flags[CHOOSE i \in failed : \A j \in failed : i <= j]
        ELSE [ok |-> SelectSeq(experiments, LAMBDA e : e.id \in kept)])

\* the sort key of a run: get_field(args.sort, 0.0), or created without --sort
SortKey(e, sort) ==
  IF sort = None THEN e.created ELSE get_field(e, sort.v, PyFloat(0, 1))

\* sorted(experiments, key=...): the ids in sorted order; a key whose lookup
\* raises, or keys that Python cannot order (TypeError), end the command
SortedRuns(experiments, sort) ==
  Bind([j \in 1..Len(experiments) |->
          [id |-> experiments[j].id, key |-> SortKey(experiments[j], sort)]],
       LAMBDA items :
    LET failed == {j \in 1..Len(items) : IsRaise(items[j].key)}
    IN  IF failed # {} THEN items[CHOOSE j \in failed : \A k \in failed : j <= k].key
        ELSE IF \E j, k \in 1..Len(items) : ~Orderable(items[j].key, items[k].key)
        THEN Raise("TypeError")
        ELSE [ids |-> Ids(SortedByKey(items))])

\* the ids list_experiments prints with --quiet, in order, or the exception
\* it raises
list_experiments(experiments, filter, sort) ==
  Bind(CompileAll(filter), LAMBDA filters :
    IF IsRaise(filters) THEN filters
    ELSE Bind(FilterRuns(experiments, filters.ok), LAMBDA kept :
           IF IsRaise(kept) THEN kept ELSE SortedRuns(kept.ok, sort)))

(***************************************************************************)
(* The list command over a repository of runs: list_experiments, and one   *)
(* compiled filter called on one of the runs.                              *)
(***************************************************************************)
OneCheckpoint ==
  <<[step |-> 1, metrics |-> <<[k |-> NameAcc, v |-> PyInt(1)]>>,
     primary_metric |-> [name |-> NameAcc, goal |-> "maximize"]]>>

Seed10 == [k |-> NameSeed, v |-> PyInt(10)]

\* params and checkpoints of the runs of the repository
QueryRunShapes ==
  {[params |-> <<>>, checkpoints |-> None],
   [params |-> <<[k |-> NameLr, v |-> PyInt(1)], Seed10>>, checkpoints |-> None],
   [params |-> <<[k |-> NameLr, v |-> PyFloat(1, 2)], Seed10>>, checkpoints |-> None],
   [params |-> <<[k |-> NameLr, v |-> PyFloat(1, 100)]>>, checkpoints |-> None],
   [params |-> <<[k |-> NameLr, v |-> PyStr(<<"0", ".", "5">>)]>>,
    checkpoints |-> List(OneCheckpoint)],
   [params |-> <<[k |-> NameSeed, v |-> PyStr(<<"a", "1">>)]>>,
    checkpoints |-> List(<<>>)],
   [params |-> <<[k |-> NameCreated, v |-> PyInt(5)]>>, checkpoints |-> List(OneCheckpoint)]}

\* repositories of n runs; the id of a run is its position
Repositories(n) ==
  {[i \in 1..n |-> [id |-> i, created |-> PyTime(c[i]), params |-> f[i].params,
                    checkpoints |-> f[i].checkpoints]] :
     f \in [1..n -> QueryRunShapes], c \in [1..n -> 1..2]}

\* the --filter texts of the model
QueryFilterTexts ==
  {NameLr \o <<">", "0", ".", "0", "1">>,
   NameLr \o <<"<", "0", ".", "0", "1">>,
   NameLr \o <<">", "=", "1">>,
   NameLr \o <<"<", "=", "a">>,
   NameLr \o <<"=", "1">>,
   NameLr \o <<"!", "=", "0", ".", "5">>,
   <<"1">> \o InToken \o NameSeed,
   <<"5">> \o InToken \o NameLr,
   NameCreated \o <<">", "1">>,
   NameCreated \o <<"<", "=", "a">>,
   NameNCheckpoints \o <<"=", "0">>,
   NameAcc \o <<">", "0">>,
   NameLr \o <<">", "0", ".", "0", "1">> \o OrToken \o NameSeed \o <<"=", "1", "0">>,
   NameLr}

Sorts == {None, PyStr(NameCreated), PyStr(NameLr)}

InitQuery ==
  /\ repo \in UNION {Repositories(n) : n \in 1..MaxRuns}
  /\ expe = NoRun
  /\ request = NoRequest
  /\ pc = "ready"
  /\ result = NoResult

\* one iteration of the comprehension of list_experiments: a filter that
\* compiled is called on a run
FilterCall ==
  /\ pc = "ready"
  /\ \E i \in 1..Len(repo), format \in QueryFilterTexts :
       /\ ~IsRaise(compile_filter(format))
       /\ expe' = repo[i]
       /\ request' = [op |-> "filter", format |-> format]
       /\ result' = Evaluate(compile_filter(format), repo[i])
  /\ pc' = "done"
  /\ UNCHANGED repo

ListExperiments ==
  /\ pc = "ready"
  /\ \E filter \in {<<>>} \cup {<<format>> : format \in QueryFilterTexts}, sort \in Sorts :
       /\ request' = [op |-> "list_experiments", filter |-> filter, sort |-> sort]
       /\ result' = list_experiments(repo, filter, sort)
  /\ pc' = "done"
  /\ UNCHANGED <<repo, expe>>

NextQuery == FilterCall \/ ListExperiments

SpecQuery == InitQuery /\ [][NextQuery]_vars

(***************************************************************************)
(* What the claims about filter evaluation and listing speak of.           *)
(***************************************************************************)
Called == pc = "done" /\ request.op = "filter"

Listed == pc = "done" /\ request.op = "list_experiments"

\* the filter that was called, and the field it looked up on the run
TheFilter == compile_filter(request.format)

TheField == FilterField(TheFilter, expe)

IsLeaf(comps) == TheFilter.kind = "filter" /\ TheFilter.comp \in comps

Range(seq) == {seq[i] : i \in 1..Len(seq)}

LrFilter == NameLr \o <<">", "0", ".", "0", "1">>

\* the resolved lr of a run is a number greater than 0.01
LrNumberAbove(e) ==
  LET lr == get_field(e, NameLr, None)
  IN  /\ ~IsRaise(lr)
      /\ IsNumber(lr)
      /\ NumLess(PyFloat(1, 100), lr)

\* C6 as claimed: "X in Y" is true iff the string representation of the
\* run's value for Y contains X, whether the value is a str, an int or a
\* float.
C6_InOnStringRepresentation ==
  (/\ Called
   /\ IsLeaf({"in"})
   /\ ~IsRaise(TheField)
   /\ TheField.t \in {"str", "int", "float"})
  => result = PyBool(Contains(ToStr(TheField), TheFilter.value))

\* a leaf with an ordering comparator, on a run whose field
\* lookup completes, evaluates to a boolean; to false when the field is
\* absent, and to false when the literal does not coerce to the type of the
\* value and the value is no str.
OrderingIsTotal ==
  (/\ Called
   /\ IsLeaf({"<", "<=", ">", ">="})
   /\ ~IsRaise(TheField))
  => /\ result \in {PyBool(TRUE), PyBool(FALSE)}
     /\ TheField = None => result = PyBool(FALSE)
     /\ (IsRaise(Convert(TheField.t, TheFilter.value)) /\ TheField.t # "str")
          => result = PyBool(FALSE)

\* C7 as claimed: an ordering leaf evaluates to a boolean without raising
\* (OrderingIsTotal), and listing with the filter lr>0.01 keeps exactly the
\* runs whose resolved lr is a number greater than 0.01.
C7_AsClaimed ==
  /\ OrderingIsTotal
  /\ (Listed /\ request.filter = <<LrFilter>> /\ ~IsRaise(result))
       => Range(result.ids) = {i \in 1..Len(repo) : LrNumberAbove(repo[i])}

\* a filter on created compares the stored timestamp of the run
CreatedInFilter ==
  (Called /\ IsLeaf({"<", "<=", ">", ">=", "=", "!="}) /\ TheFilter.field = NameCreated)
  => LET res == Compare(TheFilter.comp, expe.created,
                        try_fallback("time", TheFilter.value))
     IN  result = IF IsRaise(res) THEN PyBool(FALSE) ELSE res

\* a completed listing with --sort created is ordered by stored timestamps
CreatedInSort ==
  (Listed /\ request.sort = PyStr(NameCreated) /\ ~IsRaise(result))
  => \A j, k \in 1..Len(result.ids) :
       j < k => repo[result.ids[j]].created.v <= repo[result.ids[k]].created.v

\* C9 as claimed: the name created resolves to the stored timestamp of the
\* run both when a filter is evaluated and in the sort key of a listing
\* with --sort created.
C9_CreatedIsTheTimestamp == CreatedInFilter /\ CreatedInSort

(***************************************************************************)
(* The presenter on its own: Experiment._present applied to display lines, *)
(* and applied again to the lines of its own output.                       *)
(***************************************************************************)
Repeat(c, n) == [i \in 1..n |-> c]

\* "a: 1"; a line over MAX_LENGTH with its ":" at the start; one with its
\* ":" beyond MAX_LENGTH; one over MAX_LENGTH without ":"
DisplayLines ==
  {<<"a", ":", " ", "1">>,
   <<"a", ":", " ">> \o Repeat("1", MAX_LENGTH),
   Repeat("a", MAX_LENGTH + 1) \o <<":", " ", "1">>,
   Repeat("a", MAX_LENGTH + 1)}

\* the row limits get_params and get_metrics pass: None (0), the number of
\* selected items, 10000
RowLimits == {0, 2, ShowAllNumValues}

InitPresent ==
  /\ repo = <<>>
  /\ expe = NoRun
  /\ request \in {[op |-> "none", values |-> values, num_values |-> n] :
                    values \in UNION {[1..k -> DisplayLines] : k \in 0..MaxLines},
                    n \in RowLimits}
  /\ pc = "ready"
  /\ result = NoResult

Present ==
  /\ pc = "ready"
  /\ request' = [request EXCEPT !.op = "_present"]
  /\ result' = _present(request.values, request.num_values)
  /\ pc' = "presented"
  /\ UNCHANGED <<repo, expe>>

\* the output is split back on newlines and presented with the same limit
PresentAgain ==
  /\ pc = "presented"
  /\ ~IsRaise(result)
  /\ request' = [op |-> "_present again", values |-> Split(result.v, <<"\n">>),
                 num_values |-> request.num_values, first |-> result]
  /\ result' = _present(Split(result.v, <<"\n">>), request.num_values)
  /\ pc' = "done"
  /\ UNCHANGED <<repo, expe>>

NextPresent == Present \/ PresentAgain

SpecPresent == InitPresent /\ [][NextPresent]_vars

\* C10 as claimed: presenting the lines of an output again, with the same
\* row limit, returns the same output.
C10_PresentIdempotent ==
  (pc = "done" /\ request.op = "_present again") => result = request.first

====
